---- MODULE Spec2Model ----
(***************************************************************************)
(* Model of flooey/tictactoe (src/index.ts): the exhaustive outcome tree   *)
(* of tic-tac-toe (result), structural equivalence of outcome trees (eq),  *)
(* the dominance policies (normalTicTacToe, playerWantsResult) and the     *)
(* reducer (reduce, trimResult, trimPossibles).                            *)
(*                                                                         *)
(* JavaScript values are modelled as follows:                              *)
(*   null                  the string "null" (Null)                        *)
(*   Player                "P1" | "P2"                                     *)
(*   FinalResult           [kind |-> "final", result, path]                *)
(*   ChoiceResult          [kind |-> "choice", chooser, choices]           *)
(*   T[] (arrays)          sequences; JS index k is TLA+ index k + 1       *)
(*   Set<T>                sets                                            *)
(*   string                sequence of one-character strings               *)
(*   Board                 function 0..8 -> Player or Null                 *)
(***************************************************************************)
EXTENDS Integers, Sequences, FiniteSets

VARIABLES board, path, toPlay, inTree, alt, policy, out, out2, ta, tb, tc, ret, pc

vars == <<board, path, toPlay, inTree, alt, policy, out, out2, ta, tb, tc, ret, pc>>

Null == "null"

Players == {"P1", "P2"}

Outcomes == {"P1", "P2", Null}

Cells == 0..8

Final(r, p) == [kind |-> "final", result |-> r, path |-> p]

Choice(c, cs) == [kind |-> "choice", chooser |-> c, choices |-> cs]

Other(p) == IF p = "P1" THEN "P2" ELSE "P1"

(***************************************************************************)
(* Array helpers of the JavaScript runtime and lodash.                     *)
(***************************************************************************)
RECURSIVE filterSeq(_, _)
filterSeq(s, keep) ==
  IF s = <<>> THEN <<>>
  ELSE IF keep[1] THEN <<Head(s)>> \o filterSeq(Tail(s), Tail(keep))
       ELSE filterSeq(Tail(s), Tail(keep))

RECURSIVE flatSeq(_)
flatSeq(ss) == IF ss = <<>> THEN <<>> ELSE Head(ss) \o flatSeq(Tail(ss))

spliceOne(s, k) == SubSeq(s, 1, k - 1) \o SubSeq(s, k + 1, Len(s))

(***************************************************************************)
(* eq: order-independent structural equality, greedy one-to-one matching   *)
(* against a scratch copy of b's children.  findIndex returns 0 where the  *)
(* JavaScript returns -1.                                                  *)
(***************************************************************************)
RECURSIVE eq(_, _)
RECURSIVE eqLoop(_, _)
findIndexEq(aChoice, bCopy) ==
  LET hits == {k \in 1..Len(bCopy) : eq(aChoice, bCopy[k])}
  IN IF hits = {} THEN 0 ELSE CHOOSE k \in hits : \A m \in hits : k <= m

eqLoopNoSplice(aChoices, bCopy) ==
  \A k \in 1..Len(aChoices) : findIndexEq(aChoices[k], bCopy) # 0

eqLoop(aChoices, bCopy) ==
  IF aChoices = <<>> THEN TRUE
  ELSE LET matched == findIndexEq(Head(aChoices), bCopy)
       IN IF matched = 0 THEN FALSE
          ELSE eqLoop(Tail(aChoices), spliceOne(bCopy, matched))

eq(a, b) ==
  IF a.kind = "final" /\ b.kind = "final" /\ a.result = b.result THEN TRUE
  ELSE IF /\ a.kind = "choice"
          /\ b.kind = "choice"
          /\ a.chooser = b.chooser
          /\ Len(a.choices) = Len(b.choices)
       THEN eqLoop(a.choices, b.choices)
       ELSE FALSE

RECURSIVE uniqLoop(_, _)
uniqLoop(rest, seen) ==
  IF rest = <<>> THEN seen
  ELSE IF \E k \in 1..Len(seen) : eq(Head(rest), seen[k])
       THEN uniqLoop(Tail(rest), seen)
       ELSE uniqLoop(Tail(rest), Append(seen, Head(rest)))

uniqWith(possibles) == uniqLoop(possibles, <<>>)

(***************************************************************************)
(* allFinals: the outcomes of the Final leaves beneath a node.             *)
(***************************************************************************)
RECURSIVE allFinals(_)
allFinals(r) ==
  IF r.kind = "final" THEN {r.result}
  ELSE UNION {allFinals(r.choices[k]) : k \in 1..Len(r.choices)}

(***************************************************************************)
(* winner and result: the tree synthesizer.                                *)
(***************************************************************************)
Lines ==
  << <<0, 1, 2>>, <<3, 4, 5>>, <<6, 7, 8>>, <<0, 3, 6>>,
     <<1, 4, 7>>, <<2, 5, 8>>, <<0, 4, 8>>, <<2, 4, 6>> >>

lineWonNoThird(b, l) == b[l[1]] = b[l[2]] /\ b[l[2]] # Null

lineWon(b, l) == b[l[1]] = b[l[2]] /\ b[l[2]] = b[l[3]] /\ b[l[3]] # Null

winner(b) ==
  LET hits == {k \in 1..Len(Lines) : lineWon(b, Lines[k])}
  IN IF hits = {} THEN Null
     ELSE b[Lines[CHOOSE k \in hits : \A m \in hits : k <= m][1]]

boardFull(b) == ~ \E x \in Cells : b[x] = Null

RECURSIVE result(_, _, _)
RECURSIVE resultLoop(_, _, _, _)
resultLoop(b, p, tp, i) ==
  IF i >= 9 THEN <<>>
  ELSE IF b[i] = Null
       THEN <<result([b EXCEPT ![i] = tp], Append(p, i), Other(tp))>>
              \o resultLoop(b, p, tp, i + 1)
       ELSE resultLoop(b, p, tp, i + 1)

result(b, p, tp) ==
  LET won == winner(b)
  IN IF won # Null THEN Final(won, p)
     ELSE IF boardFull(b) THEN Final(Null, p)
     ELSE Choice(tp, resultLoop(b, p, tp, 0))

(***************************************************************************)
(* resultToString: the rendered text of a tree, as a sequence of           *)
(* characters.  "\n" is the line feed.                                     *)
(***************************************************************************)
Digits == <<"0", "1", "2", "3", "4", "5", "6", "7", "8", "9">>

RECURSIVE repeatStr(_, _)
repeatStr(s, n) == IF n <= 0 THEN <<>> ELSE s \o repeatStr(s, n - 1)

RECURSIVE joinStr(_, _)
joinStr(ss, sep) ==
  IF ss = <<>> THEN <<>>
  ELSE IF Len(ss) = 1 THEN ss[1]
  ELSE ss[1] \o sep \o joinStr(Tail(ss), sep)

pathToString(p) == joinStr([k \in 1..Len(p) |-> <<Digits[p[k] + 1]>>], <<",">>)

outcomeLabel(r) ==
  IF r = Null THEN <<"D">> ELSE IF r = "P1" THEN <<"P", "1">> ELSE <<"P", "2">>

RECURSIVE resultToString(_, _)
resultToString(r, indent) ==
  LET indentString == repeatStr(<<" ", " ">>, indent)
  IN IF r.kind = "final"
     THEN indentString \o outcomeLabel(r.result) \o <<" ">> \o pathToString(r.path)
     ELSE indentString \o outcomeLabel(r.chooser) \o <<"-", ">", "(", "\n">>
            \o joinStr([k \in 1..Len(r.choices) |->
                          resultToString(r.choices[k], indent + 2)], <<"\n">>)
            \o <<"\n">> \o indentString \o <<")">>

(***************************************************************************)
(* String.prototype.localeCompare on the alphabet of rendered trees.  The  *)
(* characters have pairwise distinct primary weights in the root           *)
(* collation, in the order of collationOrder, so the comparison is         *)
(* lexicographic on these weights.                                         *)
(***************************************************************************)
collationOrder ==
  <<"\n", " ", "-", ",", "(", ")", ">",
    "0", "1", "2", "3", "4", "5", "6", "7", "8", "9", "D", "P">>

charWeight(c) == CHOOSE k \in 1..Len(collationOrder) : collationOrder[k] = c

RECURSIVE localeCompare(_, _)
localeCompare(s, t) ==
  IF s = <<>> THEN (IF t = <<>> THEN 0 ELSE -1)
  ELSE IF t = <<>> THEN 1
  ELSE IF charWeight(Head(s)) < charWeight(Head(t)) THEN -1
  ELSE IF charWeight(Head(s)) > charWeight(Head(t)) THEN 1
  ELSE localeCompare(Tail(s), Tail(t))

compareResult(a, b) ==
  IF a.kind # b.kind THEN (IF a.kind = "final" THEN -1 ELSE 1)
  ELSE localeCompare(resultToString(a, 0), resultToString(b, 0))

(***************************************************************************)
(* Array.prototype.sort(compareResult): a stable sort.                     *)
(***************************************************************************)
RECURSIVE insertSorted(_, _)
insertSorted(sorted, x) ==
  IF sorted = <<>> THEN <<x>>
  ELSE IF compareResult(x, Head(sorted)) < 0 THEN <<x>> \o sorted
  ELSE <<Head(sorted)>> \o insertSorted(Tail(sorted), x)

RECURSIVE sortLoop(_, _)
sortLoop(rest, sorted) ==
  IF rest = <<>> THEN sorted
  ELSE sortLoop(Tail(rest), insertSorted(sorted, Head(rest)))

sortResults(rs) == sortLoop(rs, <<>>)

splitFinals(results) ==
  filterSeq(results, [k \in 1..Len(results) |-> results[k].kind = "final"])

splitNonFinals(results) ==
  filterSeq(results, [k \in 1..Len(results) |-> results[k].kind = "choice"])

(***************************************************************************)
(* The dominance policies.  A policy is a record: normalTicTacToe is       *)
(* [name |-> "normalTicTacToe", ...] and playerWantsResult(player,         *)
(* desired) is [name |-> "playerWantsResult", player, desired].            *)
(***************************************************************************)
allFinalChildren(r) == \A k \in 1..Len(r.choices) : r.choices[k].kind = "final"

childOutcomes(r) == {r.choices[k].result : k \in 1..Len(r.choices)}

normalTicTacToeNoDraw(a, b, p) ==
  IF a.kind = "choice" \/ b.kind = "choice" THEN FALSE
  ELSE a.result = p

normalTicTacToeDrawFirst(a, b, p) ==
  IF a.kind = "choice" \/ b.kind = "choice" THEN FALSE
  ELSE IF a.result = p THEN TRUE
  ELSE IF a.result = Null THEN TRUE
  ELSE FALSE

normalTicTacToe(a, b, p) ==
  IF a.kind = "choice" \/ b.kind = "choice" THEN FALSE
  ELSE IF a.result = p THEN TRUE
  ELSE IF a.result = Null /\ b.result # p THEN TRUE
  ELSE FALSE

choicesDominateSuperset(a, b) ==
  IF a.kind = "final" /\ b.kind = "choice"
  THEN IF ~allFinalChildren(b) THEN FALSE
       ELSE a.result \in childOutcomes(b)
  ELSE IF a.kind = "choice" /\ b.kind = "choice"
  THEN IF ~allFinalChildren(a) \/ ~allFinalChildren(b) THEN FALSE
       ELSE \A c \in childOutcomes(b) : c \in childOutcomes(a)
  ELSE FALSE

choicesDominate(a, b) ==
  IF a.kind = "final" /\ b.kind = "choice"
  THEN IF ~allFinalChildren(b) THEN FALSE
       ELSE a.result \in childOutcomes(b)
  ELSE IF a.kind = "choice" /\ b.kind = "choice"
  THEN IF ~allFinalChildren(a) \/ ~allFinalChildren(b) THEN FALSE
       ELSE \A c \in childOutcomes(a) : c \in childOutcomes(b)
  ELSE FALSE

playerWantsResult(player, desired, a, b, p) ==
  IF choicesDominate(a, b) THEN TRUE
  ELSE IF p = player /\ a.kind = "final" /\ a.result = desired THEN TRUE
  ELSE IF /\ p = player
          /\ a.kind = "choice"
          /\ \E k \in 1..Len(a.choices) :
               a.choices[k].kind = "final" /\ a.choices[k].result = desired
          /\ \/ b.kind = "final" /\ b.result # desired
             \/ /\ b.kind = "choice"
                /\ allFinalChildren(b)
                /\ desired \notin childOutcomes(b)
       THEN TRUE
  ELSE FALSE

NormalPolicy == [name |-> "normalTicTacToe", player |-> Null, desired |-> Null]

WantsPolicy(player, desired) ==
  [name |-> "playerWantsResult", player |-> player, desired |-> desired]

Policies ==
  {NormalPolicy} \cup {WantsPolicy(pl, w) : pl \in Players, w \in Outcomes}

dominates(d, a, b, p) ==
  IF d.name = "normalTicTacToe" THEN normalTicTacToe(a, b, p)
  ELSE playerWantsResult(d.player, d.desired, a, b, p)

(***************************************************************************)
(* trimPossibles: subsumption elimination, then the pairwise dominance     *)
(* pass over every ordered pair (i, j), i outer, j inner.  toRemove holds  *)
(* the (1-based) indices marked so far.                                    *)
(***************************************************************************)
coveredByFinals(nonFinal, finals) ==
  \A r \in allFinals(nonFinal) : \E k \in 1..Len(finals) : finals[k].result = r

keptNonFinals(finals, nonFinals) ==
  filterSeq(nonFinals,
            [k \in 1..Len(nonFinals) |-> ~coveredByFinals(nonFinals[k], finals)])

markPairOrdered(trimmed, d, player, i, j, toRemove) ==
  /\ i < j
  /\ j \notin toRemove
  /\ dominates(d, trimmed[i], trimmed[j], player)

markPair(trimmed, d, player, i, j, toRemove) ==
  /\ i # j
  /\ j \notin toRemove
  /\ dominates(d, trimmed[i], trimmed[j], player)

RECURSIVE markLoop(_, _, _, _, _, _)
markLoop(trimmed, d, player, i, j, toRemove) ==
  IF i > Len(trimmed) THEN toRemove
  ELSE IF j > Len(trimmed) THEN markLoop(trimmed, d, player, i + 1, 1, toRemove)
  ELSE IF markPair(trimmed, d, player, i, j, toRemove)
       THEN markLoop(trimmed, d, player, i, j + 1, toRemove \cup {j})
       ELSE markLoop(trimmed, d, player, i, j + 1, toRemove)

trimPossibles(results, d, player) ==
  LET finals == splitFinals(results)
      nonFinals == splitNonFinals(results)
      trimmed == finals \o keptNonFinals(finals, nonFinals)
      toRemove == markLoop(trimmed, d, player, 1, 1, {})
  IN filterSeq(trimmed, [k \in 1..Len(trimmed) |-> k \notin toRemove])

(***************************************************************************)
(* trimResult: flatten same-chooser children, deduplicate, trim, collapse  *)
(* a single survivor, sort.                                                *)
(***************************************************************************)
flattenNone(r) == r.choices

flatten(r) ==
  flatSeq([k \in 1..Len(r.choices) |->
             IF r.choices[k].kind = "choice" /\ r.choices[k].chooser = r.chooser
             THEN r.choices[k].choices
             ELSE <<r.choices[k]>>])

trimResult(r, d) ==
  IF r.kind = "final" THEN r
  ELSE LET possibles == flatten(r)
           trimmedPossibles == trimPossibles(uniqWith(possibles), d, r.chooser)
       IN IF Len(trimmedPossibles) = 1 THEN trimmedPossibles[1]
          ELSE Choice(r.chooser, sortResults(trimmedPossibles))

(***************************************************************************)
(* reduce: reduce the non-Final children, keep the Final ones, trim.  The  *)
(* declined sets are threaded through the recursion as in the source.      *)
(***************************************************************************)
finalOutcomes(finals) == {finals[k].result : k \in 1..Len(finals)}

reduceShallow(r, d, p1Declined, p2Declined) == trimResult(r, d)

RECURSIVE reduce(_, _, _, _)
reduce(r, d, p1Declined, p2Declined) ==
  IF r.kind = "final" THEN r
  ELSE LET finals == splitFinals(r.choices)
           nonFinals == splitNonFinals(r.choices)
           newP1Declined == IF r.chooser = "P1"
                            THEN p1Declined \cup finalOutcomes(finals)
                            ELSE p1Declined
           newP2Declined == IF r.chooser = "P1"
                            THEN p2Declined
                            ELSE p2Declined \cup finalOutcomes(finals)
           reduced == [k \in 1..Len(nonFinals) |->
                         reduce(nonFinals[k], d, newP1Declined, newP2Declined)]
       IN trimResult(Choice(r.chooser, finals \o reduced), d)

(***************************************************************************)
(* Generated inputs: every tree with at most a given number of nodes       *)
(* (Final and Choice nodes together), every Choice node with at least one  *)
(* child.  As in the trees result() builds, the path of a Final node is    *)
(* the sequence of child indices (0-based) that leads to it from the root. *)
(***************************************************************************)
MaxNodes == 6

ReorderNodes == 4

EqNodes == 4

DomNodes == 4

(* ShapeTable(n).shapes[k] is the set of trees with exactly k nodes, and    *)
(* ShapeTable(n).forests[m + 1] the set of sequences of trees with m nodes *)
(* in all, for k in 1..n and m in 0..n-1; paths are filled in by withPaths *)
RECURSIVE ShapeTable(_)
ShapeTable(n) ==
  IF n = 1
  THEN [shapes |-> <<{Final(r, <<>>) : r \in Outcomes}>>, forests |-> <<{<<>>}>>]
  ELSE LET prev == ShapeTable(n - 1)
           forest == UNION {{<<t>> \o f : t \in prev.shapes[k],
                                          f \in prev.forests[n - k]} :
                              k \in 1..(n - 1)}
       IN [shapes |-> Append(prev.shapes,
                             {Choice(c, cs) : c \in Players, cs \in forest}),
           forests |-> Append(prev.forests, forest)]

RECURSIVE withPaths(_, _)
withPaths(r, prefix) ==
  IF r.kind = "final" THEN Final(r.result, prefix)
  ELSE Choice(r.chooser,
              [k \in 1..Len(r.choices) |->
                 withPaths(r.choices[k], Append(prefix, k - 1))])

(* tree = some tree with at most n nodes; the trees are enumerated by the   *)
(* size of the first child of the root, so that no set of whole trees is   *)
(* ever built                                                              *)
IsTreeUpTo(tree, n, table) ==
  \/ \E r \in Outcomes : tree = Final(r, <<>>)
  \/ \E m \in 1..(n - 1) : \E k \in 1..m : \E c \in Players :
       \E t \in table.shapes[k] : \E f \in table.forests[m - k + 1] :
         tree = withPaths(Choice(c, <<t>> \o f), <<>>)

ReduceTable == ShapeTable(MaxNodes - 1)

ReorderTable == ShapeTable(ReorderNodes - 1)

EqTable == ShapeTable(EqNodes - 1)

DomTable == ShapeTable(DomNodes - 1)

Idle == [kind |-> "none"]

emptyBoard == [c \in Cells |-> Null]

IndexPermutations(n) ==
  {f \in [1..n -> 1..n] : \A x, y \in 1..n : f[x] = f[y] => x = y}

(* the sequences that take their k-th element from sets[k] *)
RECURSIVE Products(_)
Products(sets) ==
  IF sets = <<>> THEN {<<>>}
  ELSE {<<x>> \o rest : x \in Head(sets), rest \in Products(Tail(sets))}

(* the trees that differ from r only in the order of children in Choice nodes *)
RECURSIVE Reorderings(_)
Reorderings(r) ==
  IF r.kind = "final" THEN {r}
  ELSE LET n == Len(r.choices)
           picks == Products([k \in 1..n |-> Reorderings(r.choices[k])])
       IN {Choice(r.chooser, [k \in 1..n |-> f[s[k]]]) :
             f \in picks, s \in IndexPermutations(n)}

(***************************************************************************)
(* SpecGame: the recursion of result() from the empty board, one move per  *)
(* step.  A state is a position result() is called on.                     *)
(***************************************************************************)
InitGame ==
  /\ board = emptyBoard
  /\ path = <<>>
  /\ toPlay = "P1"
  /\ pc = "play"
  /\ inTree = Idle /\ alt = Idle /\ policy = NormalPolicy
  /\ out = Idle /\ out2 = Idle
  /\ ta = Idle /\ tb = Idle /\ tc = Idle /\ ret = Idle

PlayMove(i) ==
  /\ pc = "play"
  /\ winner(board) = Null
  /\ ~boardFull(board)
  /\ board[i] = Null
  /\ board' = [board EXCEPT ![i] = toPlay]
  /\ path' = Append(path, i)
  /\ toPlay' = Other(toPlay)
  /\ UNCHANGED <<inTree, alt, policy, out, out2, ta, tb, tc, ret, pc>>

NextGame == \E i \in Cells : PlayMove(i)

SpecGame == InitGame /\ [][NextGame]_vars

(***************************************************************************)
(* SpecReduce: reduce() applied to a generated tree under a reference      *)
(* policy, then applied again to its own output.                           *)
(***************************************************************************)
InitReduce ==
  /\ IsTreeUpTo(inTree, MaxNodes, ReduceTable)
  /\ policy \in Policies
  /\ pc = "built"
  /\ alt = Idle /\ out = Idle /\ out2 = Idle
  /\ board = emptyBoard /\ path = <<>> /\ toPlay = "P1"
  /\ ta = Idle /\ tb = Idle /\ tc = Idle /\ ret = Idle

Reduce ==
  /\ pc = "built"
  /\ out' = reduce(inTree, policy, {}, {})
  /\ pc' = "reduced"
  /\ UNCHANGED <<board, path, toPlay, inTree, alt, policy, out2, ta, tb, tc, ret>>

ReduceAgain ==
  /\ pc = "reduced"
  /\ out2' = reduce(out, policy, {}, {})
  /\ pc' = "again"
  /\ UNCHANGED <<board, path, toPlay, inTree, alt, policy, out, ta, tb, tc, ret>>

NextReduce == Reduce \/ ReduceAgain

SpecReduce == InitReduce /\ [][NextReduce]_vars

(***************************************************************************)
(* SpecReorder: reduce() applied to a generated tree and to a reordering   *)
(* of it (alt), under the same policy.                                     *)
(***************************************************************************)
InitReorder ==
  /\ IsTreeUpTo(inTree, ReorderNodes, ReorderTable)
  /\ policy \in Policies
  /\ pc = "built"
  /\ alt = Idle /\ out = Idle /\ out2 = Idle
  /\ board = emptyBoard /\ path = <<>> /\ toPlay = "P1"
  /\ ta = Idle /\ tb = Idle /\ tc = Idle /\ ret = Idle

Reorder ==
  /\ pc = "built"
  /\ alt' \in Reorderings(inTree)
  /\ pc' = "reordered"
  /\ UNCHANGED <<board, path, toPlay, inTree, policy, out, out2, ta, tb, tc, ret>>

ReduceBoth ==
  /\ pc = "reordered"
  /\ out' = reduce(inTree, policy, {}, {})
  /\ out2' = reduce(alt, policy, {}, {})
  /\ pc' = "both"
  /\ UNCHANGED <<board, path, toPlay, inTree, alt, policy, ta, tb, tc, ret>>

NextReorder == Reorder \/ ReduceBoth

SpecReorder == InitReorder /\ [][NextReorder]_vars

(***************************************************************************)
(* SpecEq: eq() applied to two generated trees in both orders and, when    *)
(* they are eq, to each of them and a third tree that eq() accepts as      *)
(* equivalent to the second (the only triples transitivity speaks about).  *)
(***************************************************************************)
InitEq ==
  /\ IsTreeUpTo(ta, EqNodes, EqTable)
  /\ IsTreeUpTo(tb, EqNodes, EqTable)
  /\ tc = Idle
  /\ ret = Idle
  /\ pc = "args"
  /\ board = emptyBoard /\ path = <<>> /\ toPlay = "P1"
  /\ inTree = Idle /\ alt = Idle /\ policy = NormalPolicy
  /\ out = Idle /\ out2 = Idle

CallEq ==
  /\ pc = "args"
  /\ ret' = [aa |-> eq(ta, ta), ab |-> eq(ta, tb), ba |-> eq(tb, ta)]
  /\ pc' = "compared"
  /\ UNCHANGED <<board, path, toPlay, inTree, alt, policy, out, out2, ta, tb, tc>>

CallEqThird ==
  /\ pc = "compared"
  /\ ret.ab
  /\ IsTreeUpTo(tc', EqNodes, EqTable)
  /\ eq(tb, tc')
  /\ ret' = [aa |-> ret.aa, ab |-> ret.ab, ba |-> ret.ba,
             bc |-> eq(tb, tc'), ac |-> eq(ta, tc')]
  /\ pc' = "third"
  /\ UNCHANGED <<board, path, toPlay, inTree, alt, policy, out, out2, ta, tb>>

NextEq == CallEq \/ CallEqThird

SpecEq == InitEq /\ [][NextEq]_vars

(***************************************************************************)
(* SpecDominate: choicesDominate() applied to a pair of generated trees.   *)
(***************************************************************************)
InitDominate ==
  /\ IsTreeUpTo(ta, DomNodes, DomTable)
  /\ IsTreeUpTo(tb, DomNodes, DomTable)
  /\ tc = Idle
  /\ ret = Idle
  /\ pc = "args"
  /\ board = emptyBoard /\ path = <<>> /\ toPlay = "P1"
  /\ inTree = Idle /\ alt = Idle /\ policy = NormalPolicy
  /\ out = Idle /\ out2 = Idle

CallChoicesDominate ==
  /\ pc = "args"
  /\ ret' = choicesDominate(ta, tb)
  /\ pc' = "dominated"
  /\ UNCHANGED <<board, path, toPlay, inTree, alt, policy, out, out2, ta, tb, tc>>

NextDominate == CallChoicesDominate

SpecDominate == InitDominate /\ [][NextDominate]_vars

(***************************************************************************)
(* Operators used to state the properties.                                 *)
(***************************************************************************)
RECURSIVE finalPathLengths(_)
finalPathLengths(r) ==
  IF r.kind = "final" THEN {Len(r.path)}
  ELSE UNION {finalPathLengths(r.choices[k]) : k \in 1..Len(r.choices)}

RECURSIVE choiceNodes(_)
choiceNodes(r) ==
  IF r.kind = "final" THEN {}
  ELSE {r} \cup UNION {choiceNodes(r.choices[k]) : k \in 1..Len(r.choices)}

hasTwoChildren(r) == Len(r.choices) >= 2

hasNoSameChooserChild(r) ==
  \A k \in 1..Len(r.choices) :
    ~(r.choices[k].kind = "choice" /\ r.choices[k].chooser = r.chooser)

hasSameChooserChild(r) == ~hasNoSameChooserChild(r)

RECURSIVE minimax(_)
minimax(r) ==
  IF r.kind = "final" THEN r.result
  ELSE LET vals == {minimax(r.choices[k]) : k \in 1..Len(r.choices)}
       IN IF r.chooser \in vals THEN r.chooser
          ELSE IF Null \in vals THEN Null
          ELSE Other(r.chooser)

PerfectPairing(as, bs) ==
  /\ Len(as) = Len(bs)
  /\ \E s \in IndexPermutations(Len(as)) : \A k \in 1..Len(as) : eq(as[k], bs[s[k]])

rootChooser == inTree.chooser

(* the argument of the trimPossibles call that produces the root of out *)
rootResults ==
  LET finals == splitFinals(inTree.choices)
      nonFinals == splitNonFinals(inTree.choices)
      reduced == [k \in 1..Len(nonFinals) |-> reduce(nonFinals[k], policy, {}, {})]
  IN uniqWith(flatten(Choice(rootChooser, finals \o reduced)))

rootTrimmed ==
  splitFinals(rootResults)
    \o keptNonFinals(splitFinals(rootResults), splitNonFinals(rootResults))

rootToRemove == markLoop(rootTrimmed, policy, rootChooser, 1, 1, {})

mutualPairs ==
  {pr \in (1..Len(rootTrimmed)) \X (1..Len(rootTrimmed)) :
     /\ pr[1] # pr[2]
     /\ dominates(policy, rootTrimmed[pr[1]], rootTrimmed[pr[2]], rootChooser)
     /\ dominates(policy, rootTrimmed[pr[2]], rootTrimmed[pr[1]], rootChooser)}

(***************************************************************************)
(* C1: the full tree built by result() from the empty board with P1 to     *)
(* move, reduced under normalTicTacToe, is a single Final node whose       *)
(* outcome is a draw.                                                      *)
(***************************************************************************)
C1_StrictPreferenceRootIsDraw ==
  (pc = "play" /\ path = <<>>) =>
    LET r == reduce(result(board, path, toPlay), NormalPolicy, {}, {})
    IN r.kind = "final" /\ r.result = Null

C1_Witness ==
  /\ pc = "play" /\ board = emptyBoard /\ toPlay = "P1"
  /\ reduce(result(board, path, toPlay), NormalPolicy, {}, {}).kind = "final"

(***************************************************************************)
(* C4: the outcomes over the Final leaves of the unreduced tree from the   *)
(* empty board are exactly P1, P2 and draw, and every Final leaf's path    *)
(* has between 5 and 9 moves; the same holds of every terminal position    *)
(* the recursion reaches.                                                  *)
(***************************************************************************)
C4_OutcomesAndPathLengths ==
  /\ (pc = "play" /\ path = <<>>) =>
       LET t == result(board, path, toPlay)
       IN allFinals(t) = Outcomes /\ finalPathLengths(t) \subseteq 5..9
  /\ (pc = "play" /\ (winner(board) # Null \/ boardFull(board))) =>
       (Len(path) >= 5 /\ Len(path) <= 9)

C4_Witness ==
  /\ pc = "play" /\ boardFull(board) /\ winner(board) = Null /\ Len(path) = 9

(***************************************************************************)
(* C2 (as stated): under every reference policy no Choice node of the tree *)
(* returned by reduce() has fewer than 2 children.                         *)
(***************************************************************************)
C2_NoChoiceBelowTwo ==
  pc = "reduced" => \A n \in choiceNodes(out) : hasTwoChildren(n)

(***************************************************************************)
(* C3: reduce() is idempotent up to eq: reducing the output again gives a  *)
(* tree eq to the output.                                                  *)
(***************************************************************************)
C3_Idempotent ==
  pc = "again" => eq(out2, out)

C3_Witness ==
  /\ pc = "again" /\ out.kind = "choice" /\ Len(out.choices) >= 2
  /\ out # inTree /\ eq(out2, out)

(***************************************************************************)
(* C6 (as stated): two children of one level that dominate each other in   *)
(* the dominance pass of trimPossibles() are never both removed.           *)
(***************************************************************************)
C6_MutualDominatorsNotBothRemoved ==
  (pc = "reduced" /\ inTree.kind = "choice") =>
    \A pr \in mutualPairs : pr[1] \notin rootToRemove \/ pr[2] \notin rootToRemove

(***************************************************************************)
(* C8: no Choice node of the tree returned by reduce() has a child that is *)
(* a Choice node with the same chooser.                                    *)
(***************************************************************************)
C8_NoAdjacentSameChooser ==
  pc = "reduced" => \A n \in choiceNodes(out) : hasNoSameChooserChild(n)

C8_Witness ==
  /\ pc = "reduced" /\ (\E n \in choiceNodes(inTree) : hasSameChooserChild(n))
  /\ out.kind = "choice" /\ Len(out.choices) >= 2

(***************************************************************************)
(* C9 (as stated): for an input tree and any tree that differs from it     *)
(* only in the order of children in Choice nodes, reduce() under the same  *)
(* policy returns trees with the same rendered text.                       *)
(***************************************************************************)
C9_SameTextForAnyOrder ==
  pc = "both" => resultToString(out2, 0) = resultToString(out, 0)

(***************************************************************************)
(* C9 (amended): for an input tree and any tree that differs from it only  *)
(* in the order of children in Choice nodes, reduce() under the same       *)
(* policy returns trees that are eq.                                       *)
(***************************************************************************)
C9_EqForAnyOrder ==
  pc = "both" => eq(out2, out)

C9_Witness ==
  /\ pc = "both" /\ alt # inTree
  /\ out.kind = "choice" /\ Len(out.choices) >= 2
  /\ out2 # out /\ eq(out2, out)

(***************************************************************************)
(* C10: under normalTicTacToe reduce() returns a Final node whose outcome  *)
(* is the minimax value of the input (own win over draw over loss).        *)
(***************************************************************************)
C10_NormalIsMinimax ==
  (pc = "reduced" /\ policy = NormalPolicy) =>
    (out.kind = "final" /\ out.result = minimax(inTree))

C10_Witness ==
  /\ pc = "reduced" /\ policy = NormalPolicy
  /\ inTree.kind = "choice" /\ (\A n \in choiceNodes(inTree) : hasNoSameChooserChild(n))
  /\ Cardinality(allFinals(inTree)) = 3
  /\ out.kind = "final" /\ out.result = Null

(***************************************************************************)
(* C5: eq is reflexive, symmetric and transitive, and two Choice nodes are *)
(* eq exactly when they have the same chooser and their children admit a   *)
(* perfect one-to-one pairing of eq children.                              *)
(***************************************************************************)
C5_EqIsEquivalence ==
  /\ pc = "compared" =>
       /\ ret.aa
       /\ ret.ab = ret.ba
       /\ (ta.kind = "choice" /\ tb.kind = "choice") =>
            (ret.ab = (/\ ta.chooser = tb.chooser
                       /\ PerfectPairing(ta.choices, tb.choices)))
  /\ pc = "third" => (ret.bc => ret.ac)

C5_Witness ==
  /\ pc = "third" /\ ret.ab /\ ret.bc /\ ret.ac
  /\ ta.kind = "choice" /\ Len(ta.choices) = 3
  /\ ta # tb /\ tb # tc /\ ta # tc
  /\ \E k \in 1..3 : ~eq(ta.choices[k], tb.choices[k])
  /\ \E j, k \in 1..3 : j # k /\ eq(ta.choices[j], ta.choices[k])

(***************************************************************************)
(* C7 (as stated): for two Choice nodes with all-Final children,           *)
(* choicesDominate(a, b) is true when the outcomes of a's children are a   *)
(* superset of those of b's children; it is false when either node has a   *)
(* non-Final child.                                                        *)
(***************************************************************************)
C7_SupersetDominates ==
  (pc = "dominated" /\ ta.kind = "choice" /\ tb.kind = "choice") =>
    /\ (allFinalChildren(ta) /\ allFinalChildren(tb)
          /\ childOutcomes(tb) \subseteq childOutcomes(ta)) => ret = TRUE
    /\ (~allFinalChildren(ta) \/ ~allFinalChildren(tb)) => ret = FALSE

(***************************************************************************)
(* C7 (amended): for two Choice nodes with all-Final children,             *)
(* choicesDominate(a, b) is true when the outcomes of a's children are a   *)
(* subset of those of b's children; it is false when either node has a     *)
(* non-Final child.                                                        *)
(***************************************************************************)
C7_SubsetDominates ==
  (pc = "dominated" /\ ta.kind = "choice" /\ tb.kind = "choice") =>
    /\ (allFinalChildren(ta) /\ allFinalChildren(tb)
          /\ childOutcomes(ta) \subseteq childOutcomes(tb)) => ret = TRUE
    /\ (~allFinalChildren(ta) \/ ~allFinalChildren(tb)) => ret = FALSE

C7_Witness ==
  /\ pc = "dominated" /\ ta.kind = "choice" /\ tb.kind = "choice"
  /\ allFinalChildren(ta) /\ allFinalChildren(tb)
  /\ childOutcomes(ta) \subseteq childOutcomes(tb)
  /\ childOutcomes(ta) # childOutcomes(tb)
  /\ ret = TRUE

====
